---- MODULE Spec2Model ----
(***************************************************************************)
(* A model of src/todo.ts: the task store (tasks.json), the reminder       *)
(* scheduler (setTimeout callbacks), the command dispatcher and the        *)
(* interactive session.  Strings are sequences of one-character strings,   *)
(* so that parseInt, split, join and the JSON encoding are computed.       *)
(***************************************************************************)
EXTENDS Integers, Sequences, FiniteSets, Bags, TLC

\* ------------------------------------------------------------------ bounds
\* The clock runs from 0 to MaxTime; at most MaxAdds tasks are ever added.
MaxTime == 2
MaxAdds == 2

\* ------------------------------------------------------- strings, numbers
DigitChars == <<"0", "1", "2", "3", "4", "5", "6", "7", "8", "9">>
IsDigit(c) == \E d \in 1..10 : DigitChars[d] = c
DigitVal(c) == (CHOOSE d \in 1..10 : DigitChars[d] = c) - 1
IsSpace(c) == c = " " \/ c = "\n"

\* A JavaScript number: an integer or NaN.
Num(v) == [nan |-> FALSE, v |-> v]
NaN == [nan |-> TRUE, v |-> 0]
\* a < b, a > b and a - b of JavaScript: any comparison with NaN is false.
Lt(a, b) == ~a.nan /\ ~b.nan /\ a.v < b.v
Gt(a, b) == ~a.nan /\ ~b.nan /\ a.v > b.v
Sub(a, b) == IF a.nan \/ b.nan THEN NaN ELSE Num(a.v - b.v)

RECURSIVE NatToStr(_)
NatToStr(n) ==
  IF n < 10 THEN <<DigitChars[n + 1]>>
  ELSE NatToStr(n \div 10) \o <<DigitChars[(n % 10) + 1]>>
IntToStr(n) == IF n < 0 THEN <<"-">> \o NatToStr(-n) ELSE NatToStr(n)

\* The value of the longest prefix of digits of s from position i on.
RECURSIVE DigitsFrom(_, _, _)
DigitsFrom(s, i, acc) ==
  IF i <= Len(s) /\ IsDigit(s[i]) THEN DigitsFrom(s, i + 1, acc * 10 + DigitVal(s[i]))
  ELSE acc
AllDigits(s) == Len(s) > 0 /\ \A i \in 1..Len(s) : IsDigit(s[i])

RECURSIVE SkipWs(_, _)
SkipWs(s, i) == IF i <= Len(s) /\ IsSpace(s[i]) THEN SkipWs(s, i + 1) ELSE i

\* parseInt(s, 10): leading white space, an optional sign, then the longest
\* prefix of digits; NaN if there is no digit.
parseInt(s) ==
  LET i == SkipWs(s, 1)
      neg == i <= Len(s) /\ s[i] = "-"
      j == IF i <= Len(s) /\ (s[i] = "-" \/ s[i] = "+") THEN i + 1 ELSE i
  IN IF j <= Len(s) /\ IsDigit(s[j])
       THEN Num(IF neg THEN -DigitsFrom(s, j, 0) ELSE DigitsFrom(s, j, 0))
       ELSE NaN

\* String.prototype.trim
RECURSIVE TrimRight(_)
TrimRight(s) ==
  IF Len(s) > 0 /\ IsSpace(s[Len(s)]) THEN TrimRight(SubSeq(s, 1, Len(s) - 1)) ELSE s
trim(s) == LET i == SkipWs(s, 1) IN TrimRight(SubSeq(s, i, Len(s)))

\* s.split(" "): the pieces between single spaces (empty pieces are kept).
RECURSIVE SplitFrom(_, _, _)
SplitFrom(s, i, cur) ==
  IF i > Len(s) THEN <<cur>>
  ELSE IF s[i] = " " THEN <<cur>> \o SplitFrom(s, i + 1, <<>>)
  ELSE SplitFrom(s, i + 1, Append(cur, s[i]))
split(s) == SplitFrom(s, 1, <<>>)

\* words.join(" ")
RECURSIVE join(_)
join(words) ==
  IF Len(words) = 0 THEN <<>>
  ELSE IF Len(words) = 1 THEN words[1]
  ELSE words[1] \o <<" ">> \o join(Tail(words))

\* args.slice(k): the elements from 0-based position k on.
slice(a, k) == SubSeq(a, k + 1, Len(a))

\* ------------------------------------------------------------------ dates
\* An absolute time is an integer; its ISO form is "T" and the decimal digits.
toISOString(n) == <<"T">> \o IntToStr(n)

\* new Date(s).getTime(): the time of an ISO string, NaN for anything else.
DateGetTime(s) ==
  IF Len(s) >= 2 /\ s[1] = "T" /\ AllDigits(SubSeq(s, 2, Len(s)))
    THEN Num(DigitsFrom(s, 2, 0))
  ELSE IF Len(s) >= 3 /\ s[1] = "T" /\ s[2] = "-" /\ AllDigits(SubSeq(s, 3, Len(s)))
    THEN Num(-DigitsFrom(s, 3, 0))
  ELSE NaN

\* chrono.parseDate(input), relative to the time ref: "in N" is ref + N and
\* "N ago" is ref - N; null (ok = FALSE) for anything else.
chronoParseDate(input, ref) ==
  LET n == Len(input) IN
  IF n >= 4 /\ SubSeq(input, 1, 3) = <<"i", "n", " ">> /\ AllDigits(SubSeq(input, 4, n))
    THEN [ok |-> TRUE, v |-> ref + DigitsFrom(input, 4, 0)]
  ELSE IF n >= 5 /\ SubSeq(input, n - 3, n) = <<" ", "a", "g", "o">>
          /\ AllDigits(SubSeq(input, 1, n - 4))
    THEN [ok |-> TRUE, v |-> ref - DigitsFrom(input, 1, 0)]
  ELSE [ok |-> FALSE, v |-> 0]

\* ------------------------------------------------------------------- JSON
K_text == <<"t", "e", "x", "t">>
K_reminderTime == <<"r", "e", "m", "i", "n", "d", "e", "r", "T", "i", "m", "e">>

\* A Task object: a record with text and, optionally, reminderTime.
HasReminder(task) == "reminderTime" \in DOMAIN task

RECURSIVE Escape(_)
Escape(s) ==
  IF Len(s) = 0 THEN <<>>
  ELSE (IF s[1] = "\"" \/ s[1] = "\\" THEN <<"\\", s[1]>> ELSE <<s[1]>>) \o Escape(Tail(s))
Quote(s) == <<"\"">> \o Escape(s) \o <<"\"">>

Indent(k) == [i \in 1..k |-> " "]
Member(key, val) == Indent(4) \o Quote(key) \o <<":", " ">> \o Quote(val)

\* A serializer that writes the text member only.
StringifyTask_textOnly(task) ==
  Indent(2) \o <<"{", "\n">> \o Member(K_text, task.text) \o <<"\n">> \o Indent(2) \o <<"}">>

StringifyTask(task) ==
  Indent(2) \o <<"{", "\n">> \o Member(K_text, task.text)
    \o (IF HasReminder(task)
          THEN <<",", "\n">> \o Member(K_reminderTime, task.reminderTime)
          ELSE <<>>)
    \o <<"\n">> \o Indent(2) \o <<"}">>

RECURSIVE StringifyElems(_)
StringifyElems(tasks) ==
  IF Len(tasks) = 1 THEN StringifyTask(tasks[1])
  ELSE StringifyTask(tasks[1]) \o <<",", "\n">> \o StringifyElems(Tail(tasks))

\* JSON.stringify(tasks, null, 2)
JSONstringify(tasks) ==
  IF Len(tasks) = 0 THEN <<"[", "]">>
  ELSE <<"[", "\n">> \o StringifyElems(tasks) \o <<"\n", "]">>

\* A JSON string literal starting at s[i] = '"': its value and the position after it.
RECURSIVE ParseChars(_, _, _)
ParseChars(s, i, acc) ==
  IF s[i] = "\"" THEN [val |-> acc, next |-> i + 1]
  ELSE IF s[i] = "\\" THEN ParseChars(s, i + 2, Append(acc, s[i + 1]))
  ELSE ParseChars(s, i + 1, Append(acc, s[i]))
ParseString(s, i) == ParseChars(s, i + 1, <<>>)

\* The members of an object, from the position after '{' or ',' on.
RECURSIVE ParseMembers(_, _, _)
ParseMembers(s, i, acc) ==
  LET p == SkipWs(s, i) IN
  IF s[p] = "}" THEN [val |-> acc, next |-> p + 1]
  ELSE LET k == ParseString(s, p)
           c == SkipWs(s, k.next)
           v == ParseString(s, SkipWs(s, c + 1))
           e == SkipWs(s, v.next)
           acc2 == Append(acc, <<k.val, v.val>>)
       IN IF s[e] = "," THEN ParseMembers(s, e + 1, acc2)
          ELSE [val |-> acc2, next |-> e + 1]

Has(pairs, key) == \E i \in 1..Len(pairs) : pairs[i][1] = key
Lookup(pairs, key) == pairs[CHOOSE i \in 1..Len(pairs) : pairs[i][1] = key][2]
ObjectOf(pairs) ==
  IF Has(pairs, K_reminderTime)
    THEN [text |-> Lookup(pairs, K_text), reminderTime |-> Lookup(pairs, K_reminderTime)]
    ELSE [text |-> Lookup(pairs, K_text)]

\* The elements of an array, from the position after '[' or ',' on.
RECURSIVE ParseElems(_, _, _)
ParseElems(s, i, acc) ==
  LET p == SkipWs(s, i) IN
  IF s[p] = "]" THEN acc
  ELSE LET o == ParseMembers(s, p + 1, <<>>)
           e == SkipWs(s, o.next)
           acc2 == Append(acc, ObjectOf(o.val))
       IN IF s[e] = "," THEN ParseElems(s, e + 1, acc2) ELSE acc2

\* JSON.parse(data) of an array of objects with string members.
JSONparse(data) == ParseElems(data, SkipWs(data, 1) + 1, <<>>)

\* ------------------------------------------------------------------ state
VARIABLES
  file,      \* tasks.json: [exists, data], data the characters of the file
  saved,     \* the array given to the last saveTasks (<<>> before any)
  meta,      \* per stored entry, in list order: [id, past], its identity and whether
             \* its reminder time was not later than the time of its add
  nextId,    \* the identity the next added entry gets
  proc,      \* "off" (no process: none started yet, exited or terminated),
             \* "crashed" (ended by an uncaught exception), "interactive", or
             \* "oneshot" (alive after its command, timers pending)
  timers,    \* the pending setTimeout callbacks of the running process
  notified,  \* the bag of notifications requested by the last started process
  now,       \* the clock, Date.now()
  args,      \* the arguments of the command just run (argv or the split line)
  out        \* the lines just written to the terminal
\* args and out are what an observer sees of the last step; the program never
\* reads them, and they are cleared (Settle) before the next step is taken.

vars == <<file, saved, meta, nextId, proc, timers, notified, now, args, out>>

\* ----------------------------------------------------------- output lines
Line(kind, n, text, rem) == [kind |-> kind, n |-> n, text |-> text, rem |-> rem]
AddedLine(text) == Line("added", 0, text, <<>>)
ReminderSetLine(iso) == Line("reminderSet", 0, <<>>, IntToStr(DateGetTime(iso).v))
WarnLine(input) == Line("warn", 0, input, <<>>)
NoTasksLine == Line("noTasks", 0, <<>>, <<>>)
HeaderLine == Line("header", 0, <<>>, <<>>)
ItemLine(n, task) ==
  Line("item", n, task.text,
       IF HasReminder(task) /\ Len(task.reminderTime) > 0
         THEN IntToStr(DateGetTime(task.reminderTime).v) ELSE <<>>)
InvalidLine == Line("invalid", 0, <<>>, <<>>)
RemovedLine(text) == Line("removed", 0, text, <<>>)
FiredLine(text) == Line("fired", 0, text, <<>>)
PromptLine == Line("prompt", 0, <<>>, <<>>)
StartedLine == Line("started", 0, <<>>, <<>>)
HelpLine == Line("help", 0, <<>>, <<>>)
ExitingLine == Line("exiting", 0, <<>>, <<>>)
UnknownLine == Line("unknown", 0, <<>>, <<>>)
UsageLine == Line("usage", 0, <<>>, <<>>)

consoleLog(w, line) == [w EXCEPT !.out = Append(@, line)]

\* ------------------------------------------------------------------ store
\* The part of the state the synchronous code of a step works on.
World ==
  [file |-> file, saved |-> saved, meta |-> meta, nextId |-> nextId,
   timers |-> timers, out |-> <<>>, threw |-> FALSE, exit |-> FALSE]

readTasks(f) == IF ~f.exists THEN <<>> ELSE JSONparse(f.data)

\* A save that also cancels the callbacks of the tasks no longer in the list.
saveTasks_cancelRemoved(w, tasks) ==
  [w EXCEPT !.file = [exists |-> TRUE, data |-> JSONstringify(tasks)],
            !.saved = tasks,
            !.timers = SelectSeq(@, LAMBDA t :
                         \E i \in DOMAIN tasks : tasks[i].text = t.text)]

saveTasks(w, tasks) ==
  [w EXCEPT !.file = [exists |-> TRUE, data |-> JSONstringify(tasks)],
            !.saved = tasks]

\* -------------------------------------------------------------- reminders
\* A parser that hands back the raw input when both strategies fail.
parseReminder_rawOnFailure(input) ==
  IF Len(input) = 0 THEN [ok |-> FALSE, iso |-> <<>>, out |-> <<>>]
  ELSE LET parsed == chronoParseDate(input, now) IN
    IF parsed.ok THEN [ok |-> TRUE, iso |-> toISOString(parsed.v), out |-> <<>>]
    ELSE [ok |-> TRUE, iso |-> input, out |-> <<>>]

parseReminder(input) ==
  IF Len(input) = 0 THEN [ok |-> FALSE, iso |-> <<>>, out |-> <<>>]
  ELSE LET parsed == chronoParseDate(input, now) IN
    IF parsed.ok THEN [ok |-> TRUE, iso |-> toISOString(parsed.v), out |-> <<>>]
    ELSE LET isoDate == DateGetTime(input) IN
      IF ~isoDate.nan THEN [ok |-> TRUE, iso |-> toISOString(isoDate.v), out |-> <<>>]
      ELSE [ok |-> FALSE, iso |-> <<>>, out |-> <<WarnLine(input)>>]

\* The test `delay > 0`, and the same test letting a zero delay through.
DelayPositive_orZero(delay) == Gt(delay, Num(-1))
DelayPositive(delay) == Gt(delay, Num(0))

\* setTimeout for the entry m when its reminder time is later than now.
scheduleReminder(w, task, m) ==
  IF ~HasReminder(task) \/ Len(task.reminderTime) = 0 THEN w
  ELSE LET reminderDate == DateGetTime(task.reminderTime)
           delay == Sub(reminderDate, Num(now))
       IN IF DelayPositive(delay)
            THEN [w EXCEPT !.timers =
                    Append(@, [id |-> m.id, past |-> m.past, text |-> task.text,
                               due |-> reminderDate.v])]
            ELSE w

RECURSIVE ScheduleFrom(_, _, _)
ScheduleFrom(w, tasks, i) ==
  IF i > Len(tasks) THEN w
  ELSE ScheduleFrom(scheduleReminder(w, tasks[i], w.meta[i]), tasks, i + 1)

\* A startup that goes through the stored tasks twice.
rescheduleAllReminders_twice(w) ==
  ScheduleFrom(ScheduleFrom(w, readTasks(w.file), 1), readTasks(w.file), 1)

rescheduleAllReminders(w) == ScheduleFrom(w, readTasks(w.file), 1)

\* --------------------------------------------------------------- commands
\* tasks.push(newTask), and an insertion at the front instead.
push_front(tasks, newTask) == <<newTask>> \o tasks
push(tasks, newTask) == Append(tasks, newTask)

\* The body of addTask, given tasks = readTasks() and r = parseReminder(...).
addTaskTo(w, tasks, r, taskText) ==
  LET newTask == IF r.ok THEN [text |-> taskText, reminderTime |-> r.iso]
                         ELSE [text |-> taskText]
      m == [id |-> w.nextId,
            past |-> r.ok /\ ~Gt(DateGetTime(r.iso), Num(now))]
      w1 == [w EXCEPT !.out = @ \o r.out]
      w2 == IF r.ok THEN scheduleReminder(w1, newTask, m) ELSE w1
      w3 == [saveTasks(w2, push(tasks, newTask)) EXCEPT
               !.meta = Append(@, m), !.nextId = @ + 1]
      w4 == consoleLog(w3, AddedLine(taskText))
  IN IF r.ok THEN consoleLog(w4, ReminderSetLine(r.iso)) ELSE w4

addTask(w, taskText, reminderInput) ==
  addTaskTo(w, readTasks(w.file), parseReminder(reminderInput), taskText)

\* The body of listTasks, given tasks = readTasks().
listTasksOf(w, tasks) ==
  IF Len(tasks) = 0 THEN consoleLog(w, NoTasksLine)
  ELSE [w EXCEPT !.out = @ \o <<HeaderLine>>
                           \o [i \in 1..Len(tasks) |-> ItemLine(i, tasks[i])]]

listTasks(w) == listTasksOf(w, readTasks(w.file))

\* Array.prototype.splice(start, deleteCount): the 0-based start actually used
\* (NaN counts as 0, a negative start counts from the end).
SpliceStart(start, len) ==
  IF start.nan THEN 0
  ELSE IF start.v < 0 THEN (IF len + start.v > 0 THEN len + start.v ELSE 0)
  ELSE IF start.v < len THEN start.v ELSE len
SpliceCount(from, deleteCount, len) ==
  IF deleteCount < len - from THEN deleteCount ELSE len - from
Removed(seq, start, deleteCount) ==
  LET from == SpliceStart(start, Len(seq))
  IN SubSeq(seq, from + 1, from + SpliceCount(from, deleteCount, Len(seq)))
\* A splice that deletes one position further on.
Remaining_shifted(seq, start, deleteCount) ==
  LET from == SpliceStart(Sub(start, Num(-1)), Len(seq))
  IN SubSeq(seq, 1, from)
       \o SubSeq(seq, from + SpliceCount(from, deleteCount, Len(seq)) + 1, Len(seq))

Remaining(seq, start, deleteCount) ==
  LET from == SpliceStart(start, Len(seq))
  IN SubSeq(seq, 1, from)
       \o SubSeq(seq, from + SpliceCount(from, deleteCount, Len(seq)) + 1, Len(seq))

\* The test `index < 1 || index > tasks.length`, and the same test with a
\* lower limit of 0.
IndexInvalid_from0(index, length) == Lt(index, Num(0)) \/ Gt(index, Num(length))
IndexInvalid(index, length) == Lt(index, Num(1)) \/ Gt(index, Num(length))

\* The body of removeTask, given tasks = readTasks().
removeTaskFrom(w, tasks, index) ==
  IF IndexInvalid(index, Len(tasks)) THEN consoleLog(w, InvalidLine)
  ELSE LET start == Sub(index, Num(1))
           removedTask == Removed(tasks, start, 1)
           w1 == [saveTasks(w, Remaining(tasks, start, 1)) EXCEPT
                    !.meta = Remaining(@, start, 1)]
       IN IF Len(removedTask) = 0
            THEN [w1 EXCEPT !.threw = TRUE]   \* removedTask[0].text: TypeError
            ELSE consoleLog(w1, RemovedLine(removedTask[1].text))

removeTask(w, index) == removeTaskFrom(w, readTasks(w.file), index)

\* ------------------------------------------------------------- dispatcher
ADD == <<"a", "d", "d">>
LIST == <<"l", "i", "s", "t">>
REMOVE == <<"r", "e", "m", "o", "v", "e">>
HELP == <<"h", "e", "l", "p">>
EXIT == <<"e", "x", "i", "t">>
QUIT == <<"q", "u", "i", "t">>

\* args[k] is present and not the empty string (k counts from 0).
Truthy(a, k) == Len(a) > k /\ Len(a[k + 1]) > 0
Command(a) == IF Len(a) > 0 THEN a[1] ELSE <<>>

\* The one-shot branch of cli(): args = process.argv.slice(2), not empty.
cliCommand(w, a) ==
  IF Command(a) = ADD /\ Truthy(a, 1) THEN addTask(w, a[2], join(slice(a, 2)))
  ELSE IF Command(a) = LIST THEN listTasks(w)
  ELSE IF Command(a) = REMOVE /\ Truthy(a, 1) THEN removeTask(w, parseInt(a[2]))
  ELSE consoleLog(w, UsageLine)

\* The branches of the "line" handler, a the split line.
lineCommand(w, a) ==
  IF Command(a) = ADD /\ Truthy(a, 1) THEN addTask(w, a[2], join(slice(a, 2)))
  ELSE IF Command(a) = LIST THEN listTasks(w)
  ELSE IF Command(a) = REMOVE /\ Truthy(a, 1) THEN removeTask(w, parseInt(a[2]))
  ELSE IF Command(a) = HELP THEN consoleLog(w, HelpLine)
  ELSE IF Command(a) = EXIT \/ Command(a) = QUIT
    THEN [consoleLog(w, ExitingLine) EXCEPT !.exit = TRUE]
  ELSE consoleLog(w, UnknownLine)

\* rl.prompt() at the end of the handler, not reached after exit or a throw.
rlPrompt(w) == IF w.threw \/ w.exit THEN w ELSE consoleLog(w, PromptLine)

\* The "line" handler of the interactive session.
onLine(w, line) == rlPrompt(lineCommand(w, split(trim(line))))

\* ----------------------------------------------------------------- inputs
\* Two task texts (one holding a quote, which JSON escapes); the reminder
\* strings are tried with the text "m".  The same commands are given as argv
\* (one-shot) and as typed lines (interactive), plus lines with stray spaces.
Texts == {<<"m">>, <<"\"">>}
ReminderWords ==
  { <<>>,                          \* no reminder
    << <<"z">> >>,                 \* unparsable
    << <<"i", "n">>, <<"1">> >>,   \* "in 1"
    << <<"1">>, <<"a", "g", "o">> >>,  \* "1 ago"
    << <<"T", "1">> >> }           \* the ISO time 1
IndexStrings ==
  {IntToStr(i) : i \in 0..(MaxAdds + 1)} \cup {<<"-", "1">>, <<"x">>, <<"1", "x">>}
ArgLists ==
  { <<ADD>>, <<ADD, <<>>>>, <<LIST>>, <<REMOVE>>, <<HELP>>, <<EXIT>>, <<QUIT>>, <<<<"x">>>> }
    \cup {<<ADD, t>> : t \in Texts}
    \cup {<<ADD, <<"m">>>> \o r : r \in ReminderWords}
    \cup {<<REMOVE, i>> : i \in IndexStrings}
Lines ==
  {join(a) : a \in ArgLists}
    \cup { <<>>, <<" ">> \o LIST \o <<" ">>, ADD \o <<" ", " ", "m">> }

IsAdd(a) == Command(a) = ADD /\ Truthy(a, 1)

\* ---------------------------------------------------------------- actions
Alive == proc \in {"interactive", "oneshot"}
Settled == args = <<>> /\ out = <<>>

Init ==
  /\ file = [exists |-> FALSE, data |-> <<>>]
  /\ saved = <<>>
  /\ meta = <<>>
  /\ nextId = 1
  /\ proc = "off"
  /\ timers = <<>>
  /\ notified = EmptyBag
  /\ now = 0
  /\ args = <<>>
  /\ out = <<>>

Commit(w, p) ==
  /\ file' = w.file
  /\ saved' = w.saved
  /\ meta' = w.meta
  /\ nextId' = w.nextId
  /\ timers' = IF p \in {"interactive", "oneshot"} THEN w.timers ELSE <<>>
  /\ out' = w.out
  /\ proc' = p

\* The one-shot process lives on while a timer is pending.
CommitOneShot(w) ==
  Commit(w, IF w.threw THEN "crashed"
            ELSE IF Len(w.timers) > 0 THEN "oneshot" ELSE "off")

\* process.exit(0) ends the interactive process, an uncaught exception too.
CommitLine(w) ==
  Commit(w, IF w.threw THEN "crashed" ELSE IF w.exit THEN "off" ELSE "interactive")

\* A process started with arguments: rescheduleAllReminders(); cli() runs the
\* command; the process then lives as long as a timer is pending.
StartOneShot(a) ==
  /\ Settled
  /\ ~Alive
  /\ Len(a) > 0
  /\ IsAdd(a) => nextId <= MaxAdds
  /\ CommitOneShot(cliCommand(rescheduleAllReminders([World EXCEPT !.timers = <<>>]), a))
  /\ notified' = EmptyBag
  /\ args' = a
  /\ UNCHANGED now

\* A process started without arguments: rescheduleAllReminders(); cli() opens
\* the interactive session.
StartInteractive ==
  /\ Settled
  /\ ~Alive
  /\ Commit(consoleLog(consoleLog(rescheduleAllReminders([World EXCEPT !.timers = <<>>]),
                                   StartedLine), PromptLine),
            "interactive")
  /\ notified' = EmptyBag
  /\ args' = <<>>
  /\ UNCHANGED now

\* One line read by the interactive session.
InteractiveLine(line) ==
  /\ Settled
  /\ proc = "interactive"
  /\ IsAdd(split(trim(line))) => nextId <= MaxAdds
  /\ CommitLine(onLine(World, line))
  /\ args' = split(trim(line))
  /\ UNCHANGED <<notified, now>>

RemoveAt(seq, i) == SubSeq(seq, 1, i - 1) \o SubSeq(seq, i + 1, Len(seq))

\* The callback of a timer whose time has come.
Fire(i) ==
  /\ Settled
  /\ Alive
  /\ i \in 1..Len(timers)
  /\ timers[i].due <= now
  /\ timers' = RemoveAt(timers, i)
  /\ notified' = notified (+) SetToBag({timers[i]})
  /\ out' = <<FiredLine(timers[i].text), PromptLine>>
  /\ proc' = IF proc = "oneshot" /\ Len(timers) = 1 THEN "off" ELSE proc
  /\ UNCHANGED <<file, saved, meta, nextId, now, args>>

Tick ==
  /\ Settled
  /\ now < MaxTime
  /\ now' = now + 1
  /\ out' = <<>>
  /\ UNCHANGED <<file, saved, meta, nextId, proc, timers, notified, args>>

\* The running process is terminated from outside.
Kill ==
  /\ Settled
  /\ Alive
  /\ proc' = "off"
  /\ timers' = <<>>
  /\ out' = <<>>
  /\ UNCHANGED <<file, saved, meta, nextId, notified, now, args>>

\* The step is over: what it showed is no longer the last step's.
Settle ==
  /\ ~Settled
  /\ args' = <<>>
  /\ out' = <<>>
  /\ UNCHANGED <<file, saved, meta, nextId, proc, timers, notified, now>>

Next ==
  \/ \E a \in ArgLists : StartOneShot(a)
  \/ StartInteractive
  \/ \E line \in Lines : InteractiveLine(line)
  \/ \E i \in 1..MaxAdds : Fire(i)
  \/ Tick
  \/ Kill
  \/ Settle

Spec == Init /\ [][Next]_vars

\* ---------------------------------------------------------------- helpers
Range(seq) == {seq[i] : i \in DOMAIN seq}
Tasks == readTasks(file)
\* A step that runs a command: its arguments become visible.
CmdStep == args = <<>> /\ args' # <<>>
IsRemove(a) == Command(a) = REMOVE /\ Truthy(a, 1)
ReminderInput(a) == join(slice(a, 2))
\* What `list` prints for the file f, and its numbered lines.
ListOut(f) == listTasks([file |-> f, out |-> <<>>]).out
Items(f) == IF Len(readTasks(f)) = 0 THEN <<>> ELSE Tail(ListOut(f))
IndexInts == -2..(MaxAdds + 2)
\* s is the decimal form of an integer outside [1, n].
OutOfRange(s, n) == \E i \in IndexInts : s = IntToStr(i) /\ (i < 1 \/ i > n)
TimerCount(id) == Cardinality({i \in DOMAIN timers : timers[i].id = id})
RECURSIVE BagSum(_, _)
BagSum(B, S) ==
  IF S = {} THEN 0
  ELSE LET t == CHOOSE x \in S : TRUE IN CopiesIn(t, B) + BagSum(B, S \ {t})
NotifiedCount(id) == BagSum(notified, {t \in BagToSet(notified) : t.id = id})

\* ------------------------------------------------------------------ claims

\* C1: for a stored list of length n and an integer index i with i < 1 or
\* i > n, `remove i` (one-shot or interactive) leaves the file exactly as it
\* was and reports "Invalid task index!".
C1_InvalidIndexRejected ==
  [][CmdStep /\ IsRemove(args') /\ OutOfRange(args'[2], Len(Tasks))
       => /\ file' = file
          /\ out' = (IF proc = "interactive" THEN <<InvalidLine, PromptLine>>
                     ELSE <<InvalidLine>>)
          /\ proc' # "crashed"]_vars

C1_Witness ==
  /\ IsRemove(args)
  /\ Len(Tasks) >= 1
  /\ args[2] = IntToStr(Len(Tasks) + 1)
  /\ InvalidLine \in Range(out)

\* s is the decimal form of a position of a list of length n.
ValidIndex(s, n) == \E i \in 1..n : s = IntToStr(i)
ValidationError(a, n) ==
  \/ Command(a) = REMOVE /\ (~Truthy(a, 1) \/ ~ValidIndex(a[2], n))
  \/ Command(a) = ADD /\ ~Truthy(a, 1)

\* C2: every validation error (remove with a missing index or with an argument
\* that is not a valid 1-based position, add with a missing task text) is
\* reported, mutates nothing and does not end the process abnormally.
C2_ValidationErrorsHarmless ==
  [][CmdStep /\ ValidationError(args', Len(Tasks))
       => /\ file' = file
          /\ out' # <<>>
          /\ proc' # "crashed"
          /\ (proc = "interactive" => proc' = "interactive")]_vars

\* The reminder input is empty, or neither strategy resolves it.
Unresolvable(input) ==
  Len(input) = 0 \/ (~chronoParseDate(input, now).ok /\ DateGetTime(input).nan)
\* The step appended the task a[2] without reminderTime, saved the list and
\* scheduled no callback for the new entry.
AddedPlain(a) ==
  /\ readTasks(file') = Append(Tasks, [text |-> a[2]])
  /\ saved' = readTasks(file')
  /\ \A i \in DOMAIN timers' : timers'[i].id # nextId
  /\ AddedLine(a[2]) \in Range(out')

\* C3 (as stated): an add whose reminder string is empty, absent or unparsable
\* appends and persists the task without reminderTime, schedules no callback
\* and emits a warning line containing the reminder input.
C3_AsStated ==
  [][CmdStep /\ IsAdd(args') /\ Unresolvable(ReminderInput(args'))
       => AddedPlain(args') /\ WarnLine(ReminderInput(args')) \in Range(out')]_vars

\* C3 (amended): such an add appends and persists the task without
\* reminderTime and schedules no callback; the warning line containing the
\* input is emitted exactly when the reminder string is not empty.
C3_UnparsableReminder ==
  [][CmdStep /\ IsAdd(args') /\ Unresolvable(ReminderInput(args'))
       => /\ AddedPlain(args')
          /\ LET input == ReminderInput(args') IN
             IF Len(input) = 0
               THEN \A i \in DOMAIN out' : out'[i].kind # "warn"
               ELSE WarnLine(input) \in Range(out')]_vars

C3_Witness ==
  /\ IsAdd(args)
  /\ ReminderInput(args) = <<"z">>
  /\ WarnLine(<<"z">>) \in Range(out)
  /\ Len(Tasks) >= 2
  /\ ~HasReminder(Tasks[Len(Tasks)])

\* C4: after `add T` on a list of length n, `list` shows T as the last
\* numbered line, with index n + 1, and the first n lines are the previous
\* tasks with their previous order and numbers.
C4_AddThenList ==
  [][CmdStep /\ IsAdd(args')
       => LET n == Len(Tasks)
              after == ListOut(file')
          IN /\ after[1] = HeaderLine
             /\ Len(after) = n + 2
             /\ SubSeq(after, 2, n + 1) = Items(file)
             /\ after[n + 2].kind = "item"
             /\ after[n + 2].n = n + 1
             /\ after[n + 2].text = args'[2]]_vars

C4_Witness ==
  /\ IsAdd(args)
  /\ Len(Tasks) = 2
  /\ Tasks[1].text # Tasks[2].text
  /\ ListOut(file)[3] = ItemLine(2, Tasks[2])
  /\ Tasks[2].text = args[2]

\* C5: a fresh readTasks returns exactly the sequence given to the last
\* saveTasks (the empty sequence while the file is absent).
C5_RoundTrip ==
  /\ readTasks(file) = saved
  /\ ~file.exists => saved = <<>>

C5_Witness ==
  /\ Len(saved) = 2
  /\ readTasks(file) = saved
  /\ \E i \in 1..2 : HasReminder(saved[i])
  /\ \E i \in 1..2 : saved[i].text = <<"\"">>

\* C6: `remove i` with i in [1, n] deletes exactly the entry at position i:
\* entries before i keep their line, entries after i move down by one, the
\* length becomes n - 1 (an emptied list shows "No tasks available."), and
\* the removed text is reported exactly once.
C6_RemoveValid ==
  [][\A i \in 1..Len(Tasks) :
       CmdStep /\ IsRemove(args') /\ args'[2] = IntToStr(i)
         => LET before == Tasks
                n == Len(before)
                after == readTasks(file')
            IN /\ Len(after) = n - 1
               /\ \A j \in 1..(n - 1) :
                    /\ after[j] = (IF j < i THEN before[j] ELSE before[j + 1])
                    /\ Items(file')[j] =
                         ItemLine(j, IF j < i THEN before[j] ELSE before[j + 1])
               /\ (n = 1 => ListOut(file') = <<NoTasksLine>>)
               /\ Cardinality({k \in DOMAIN out' :
                                 out'[k] = RemovedLine(before[i].text)}) = 1
               /\ \A k \in DOMAIN out' :
                    out'[k].kind = "removed" => out'[k].text = before[i].text]_vars

C6_Witness ==
  /\ IsRemove(args)
  /\ args[2] = <<"1">>
  /\ Len(Tasks) = 1
  /\ out[1].kind = "removed"
  /\ out[1].text # Tasks[1].text

\* C7: a task added with a reminder time not later than the time of the add
\* is stored with reminderTime set, and no callback for it is ever scheduled
\* or fired, by the add or by the rescheduling of any later process.
C7_PastReminderNeverFires ==
  /\ \A i \in DOMAIN meta :
       meta[i].past => i <= Len(Tasks) /\ HasReminder(Tasks[i])
  /\ \A i \in DOMAIN timers : ~timers[i].past
  /\ \A t \in BagToSet(notified) : ~t.past

C7_Witness ==
  /\ proc = "interactive"
  /\ out = <<StartedLine, PromptLine>>
  /\ \E i \in DOMAIN meta :
       /\ meta[i].past
       /\ Lt(DateGetTime(Tasks[i].reminderTime), Num(now))
  /\ timers = <<>>

\* C8: a one-shot invocation exits once its single command has completed; no
\* deferred callback keeps the process alive.
C8_OneShotExits == proc # "oneshot"

\* C9: no command cancels or changes a scheduled callback: while the process
\* lives, a pending callback stays pending until it fires, and when it fires
\* the notification carries the text it was scheduled with, also when the
\* task has been removed from the list meanwhile.
C9_NoCancellation ==
  [][Alive /\ proc' \in {"interactive", "oneshot"}
       => \A t \in Range(timers) :
            Cardinality({i \in DOMAIN timers' : timers'[i] = t}) + CopiesIn(t, notified')
              = Cardinality({i \in DOMAIN timers : timers[i] = t}) + CopiesIn(t, notified)]_vars

C9_Witness ==
  /\ proc = "interactive"
  /\ \E t \in BagToSet(notified) :
       /\ out = <<FiredLine(t.text), PromptLine>>
       /\ \A i \in DOMAIN meta : meta[i].id # t.id
       /\ \A i \in DOMAIN Tasks : Tasks[i].text # t.text

\* C10: within one process run every stored entry whose reminder time is
\* still in the future has exactly one pending callback, an entry without
\* reminderTime has none, and no entry gets more than one callback, so no
\* reminder fires twice in the run.
C10_OneCallbackPerEntry ==
  /\ \A id \in 1..(nextId - 1) : TimerCount(id) + NotifiedCount(id) <= 1
  /\ Alive =>
       \A i \in DOMAIN meta :
         LET task == Tasks[i] IN
         /\ ~HasReminder(task) => TimerCount(meta[i].id) + NotifiedCount(meta[i].id) = 0
         /\ HasReminder(task) /\ Gt(DateGetTime(task.reminderTime), Num(now))
              => TimerCount(meta[i].id) = 1

C10_Witness ==
  /\ proc = "interactive"
  /\ Len(timers) = 1
  /\ BagCardinality(notified) = 1
  /\ IsAdd(args)
  /\ Len(meta) = 2
  /\ \A i \in DOMAIN meta : TimerCount(meta[i].id) + NotifiedCount(meta[i].id) = 1

====
